---- MODULE Spec2Model ----
(***************************************************************************)
(* Model of quiz_bot.py: the group-quiz session engine of the Telegram     *)
(* quiz bot, and its DM quiz.  One asyncio event loop runs the update handlers (one update  *)
(* at a time: Application.builder() leaves concurrent_updates off) and the *)
(* JobQueue callbacks (each as its own task).  A coroutine runs atomically *)
(* up to its next `await`; every await of the transport (reply_text,       *)
(* send_message, send_poll) is a suspension point that either returns or   *)
(* raises.  A task that raises ends there: the library logs the exception. *)
(***************************************************************************)
EXTENDS Integers, Sequences, FiniteSets, TLC

(***************************************************************************)
(* Bounds of the model.                                                    *)
(***************************************************************************)
NumGroups == 1        \* group chats 1..NumGroups
NumUsers == 2         \* participants 1..NumUsers
NumQuestions == 2     \* len(QUIZ)
MaxTime == 23         \* the clock (whole seconds) saturates here
MaxSessions == 2      \* group sessions ever created
MaxAnswers == 2       \* poll answers ever delivered

(***************************************************************************)
(* Program constants.                                                      *)
(***************************************************************************)
GROUP_QUIZ_LEN == 5
GROUP_Q_OPEN_PERIOD == 10
TOP_LIMIT == 10

Groups == 1..NumGroups
Users == 1..NumUsers
None == -1            \* Python's None where an int is expected

Min(a, b) == IF a <= b THEN a ELSE b

(***************************************************************************)
(* The question banks.  Question i (0-based) of a bank has two options,    *)
(* every third question three, and its `answer` is option i % 2: a bank    *)
(* load_questions() accepts.  The option texts are the letters "A", "B",   *)
(* "C".                                                                    *)
(***************************************************************************)
Bank(n) ==
  [i \in 0..(n - 1) |->
     [opts |-> [k \in 1..(IF i % 3 = 2 THEN 3 ELSE 2) |-> 64 + k], answer |-> i % 2]]

\* load_questions' per-question validation
ValidQuestion(q) == Len(q.opts) >= 2 /\ 0 <= q.answer /\ q.answer < Len(q.opts)

(***************************************************************************)
(* Display names are strings, modelled as sequences of character codes.    *)
(***************************************************************************)
SPACE == 32
AT == 64

\* the Telegram user objects of the participants: (username, first, last)
UserObj(u) ==
  CASE u = 1 -> [id |-> 1, username |-> <<98>>, first_name |-> <<>>, last_name |-> <<>>]
    [] u = 2 -> [id |-> 2, username |-> <<>>, first_name |-> <<97>>, last_name |-> <<>>]
    [] u = 3 -> [id |-> 3, username |-> <<>>, first_name |-> <<66>>, last_name |-> <<98>>]
    [] OTHER -> [id |-> u, username |-> <<>>, first_name |-> <<>>, last_name |-> <<>>]

RECURSIVE LStrip(_)
LStrip(s) == IF s # <<>> /\ Head(s) = SPACE THEN LStrip(Tail(s)) ELSE s

RECURSIVE RStrip(_)
RStrip(s) == IF s # <<>> /\ s[Len(s)] = SPACE
             THEN RStrip(SubSeq(s, 1, Len(s) - 1)) ELSE s

\* str.strip()
Strip(s) == RStrip(LStrip(s))

\* str(id) for the ids of the model (one or two decimal digits)
StrOfId(n) == IF n < 10 THEN <<48 + n>> ELSE <<48 + (n \div 10), 48 + (n % 10)>>

\* _display_name_from_user
DisplayName(user) ==
  IF user.username # <<>> THEN <<AT>> \o user.username
  ELSE LET name == Strip(user.first_name \o <<SPACE>> \o user.last_name)
       IN IF name # <<>> THEN name ELSE StrOfId(user.id)

\* str.lower() on ASCII
LowerChar(c) == IF c >= 65 /\ c <= 90 THEN c + 32 ELSE c
Lower(s) == [i \in 1..Len(s) |-> LowerChar(s[i])]

\* Python's < on strings: lexicographic by code point, a proper prefix first
RECURSIVE StrLess(_, _)
StrLess(a, b) ==
  IF b = <<>> THEN FALSE
  ELSE IF a = <<>> THEN TRUE
  ELSE IF Head(a) # Head(b) THEN Head(a) < Head(b)
  ELSE StrLess(Tail(a), Tail(b))

(***************************************************************************)
(* Score maps.  A Python dict keeps insertion order, and list.sort is      *)
(* stable, so a score map is a sequence of entries [uid, name, score] in   *)
(* insertion order.                                                        *)
(***************************************************************************)
HasKey(entries, uid) == \E i \in 1..Len(entries) : entries[i].uid = uid

KeyIndex(entries, uid) == CHOOSE i \in 1..Len(entries) : entries[i].uid = uid

ScoreOf(entries, uid) ==
  IF HasKey(entries, uid) THEN entries[KeyIndex(entries, uid)].score ELSE 0

\* entry = d.setdefault(uid, {"name": .., "score": 0}); entry["name"] = ..;
\* entry["score"] += delta
AddPoint(entries, user, delta) ==
  LET uid == user.id
      base == IF HasKey(entries, uid) THEN entries
              ELSE Append(entries, [uid |-> uid, name |-> DisplayName(user), score |-> 0])
      k == KeyIndex(base, uid)
  IN [base EXCEPT ![k] = [uid |-> uid, name |-> DisplayName(user),
                          score |-> base[k].score + delta]]

\* rows = [(v["name"], int(v["score"])) for v in entries.values()]
RowsOf(entries) ==
  [i \in 1..Len(entries) |-> [name |-> entries[i].name, score |-> entries[i].score]]

\* the sort key (-x[1], x[0].lower()), compared as Python compares tuples
KeyLess_caseSensitive(r1, r2) ==
  \/ -r1.score < -r2.score
  \/ r1.score = r2.score /\ StrLess(r1.name, r2.name)

KeyLess(r1, r2) ==
  \/ -r1.score < -r2.score
  \/ r1.score = r2.score /\ StrLess(Lower(r1.name), Lower(r2.name))

\* insert r, the latest row of the input, after every row whose key is <= r's
RECURSIVE InsertRow(_, _)
InsertRow(sorted, r) ==
  IF sorted = <<>> THEN <<r>>
  ELSE IF KeyLess(r, Head(sorted)) THEN <<r>> \o sorted
  ELSE <<Head(sorted)>> \o InsertRow(Tail(sorted), r)

\* rows.sort(key=...): a stable sort
RECURSIVE SortRows(_)
SortRows(rows) ==
  IF rows = <<>> THEN <<>>
  ELSE InsertRow(SortRows(SubSeq(rows, 1, Len(rows) - 1)), rows[Len(rows)])

\* rows[:limit] for limit >= 0
Take(rows, limit) == SubSeq(rows, 1, Min(limit, Len(rows)))

\* _format_scoreboard: the title and the numbered lines ("No scores
\* recorded." when there are none)
FormatScoreboard(title, entries, limit) ==
  LET rows == SortRows(RowsOf(entries))
  IN [title |-> title, lines |-> Take(rows, limit)]

\* get_group_leaderboard over the content of scores.json
GetGroupLeaderboard(scores, chat_id, limit) ==
  LET c == IF chat_id \in DOMAIN scores THEN scores[chat_id] ELSE <<>>
  IN Take(SortRows(RowsOf(c)), limit)

(***************************************************************************)
(* State.                                                                  *)
(***************************************************************************)
VARIABLES
  QUIZ,            \* the bank load_questions() returned at start-up
  now,             \* int(datetime.now().timestamp()), whole seconds
  GROUP_SESSIONS,  \* chat_id -> [session_id, qids, idx, scores]
  POLL_TO_GROUP,   \* poll_id -> [chat_id, correct_option_id, session_id]
  scores_json,     \* the content of scores.json: chat_id -> score map
  jobs,            \* the JobQueue: armed run_once jobs not yet fired
  tasks,           \* coroutines suspended at an await of the transport
  boards,          \* history: the session scoreboards delivered, in order
  posted,          \* history: poll_id -> the session, position and question posted
  adv,             \* history: poll_id -> how often its timer has incremented idx
  answered,        \* history: the answers delivered so far, each with what the
                   \* poll's session was at delivery and whether the point it
                   \* earned is in the ledger ("counted"), was wiped by a
                   \* reset since ("reset"), or was never given ("none")
  created,         \* history: the sessions created so far, in order
  strays,          \* history: the job callbacks run outside the JobQueue
  shown,           \* the rows the last leaderboard or scoreboard reading gave
  USER_STATE,      \* user_id -> the state of the user's DM quiz
  POLL_TO_PRIVATE, \* poll_id -> [uid, qid, correct_option_id]
  sent,            \* history: the DM polls posted, in order
  reported         \* history: the DM scores shown to users

\* the state of DM mode
dm == <<USER_STATE, POLL_TO_PRIVATE, sent, reported>>

vars == <<QUIZ, now, GROUP_SESSIONS, POLL_TO_GROUP, scores_json, jobs, tasks, boards,
          posted, adv, answered, created, strays, shown, dm>>

\* len(QUIZ)
QuizLen == Cardinality(DOMAIN QUIZ)

\* random.sample(range(n), k): every sequence of k distinct elements of 0..n-1
Sample_withRepeats(n, k) == [1..k -> 0..(n - 1)]

Sample(n, k) ==
  {s \in [1..k -> 0..(n - 1)] : \A i, j \in 1..k : i # j => s[i] # s[j]}

\* random.shuffle(list(range(n))): every permutation of 0..n-1
Shuffles(n) == Sample(n, n)

\* idxs.index(v), 0-based
IndexOf_unshuffled(idxs, v) == v

IndexOf(idxs, v) == (CHOOSE i \in 1..Len(idxs) : idxs[i] = v) - 1

\* opts = [q["opts"][i] for i in idxs]; correct_option_id = idxs.index(q["answer"])
ShufflePoll(q, idxs) ==
  [opts |-> [k \in 1..Len(idxs) |-> q.opts[idxs[k] + 1]],
   correct_option_id |-> IndexOf(idxs, q.answer)]

\* f"{chat.id}:{int(datetime.datetime.now().timestamp())}"
SessionId_chatOnly(chat_id, t) == <<chat_id, 0>>

SessionId(chat_id, t) == <<chat_id, t>>

NoTask == [kind |-> "none", pc |-> "none", chat_id |-> 0, session_id |-> <<0, 0>>,
           idx |-> 0, qid |-> 0, opts |-> <<>>, coid |-> 0, text |-> <<>>, origin |-> 0]

UpdateBusy == \E t \in tasks : t.kind = "update"

\* quiz_cmd, line 176: chat.id in GROUP_SESSIONS
AlreadyActive_never(g) == FALSE

AlreadyActive(g) == g \in DOMAIN GROUP_SESSIONS

\* _group_next_question_job, line 321:
\* session and session.get("session_id") == session_id
SameSession_anyRun(sessions, chat_id, session_id) == chat_id \in DOMAIN sessions

SameSession(sessions, chat_id, session_id) ==
  chat_id \in DOMAIN sessions /\ sessions[chat_id].session_id = session_id

\* on_poll_answer, line 363: session and session.get("session_id") == session_id
StillSameSession_anyRun(sessions, chat_id, session_id) == chat_id \in DOMAIN sessions

StillSameSession(sessions, chat_id, session_id) ==
  chat_id \in DOMAIN sessions /\ sessions[chat_id].session_id = session_id

\* _send_next_group_question, line 273: idx >= len(qids)
Finished_early(idx, qids) == idx + 1 >= Len(qids)

Finished(idx, qids) == idx >= Len(qids)

\* qid = qids[idx], on a 0-based list
QuestionAt_first(qids, idx) == qids[1]

QuestionAt(qids, idx) == qids[idx + 1]

(***************************************************************************)
(* _send_next_group_question up to its first await, on the sessions        *)
(* `sessions`: the coroutines it may become (NoTask when it returns at     *)
(* once).  The scoreboard text is computed before the first send_message.  *)
(***************************************************************************)
SendNextGroupQuestion(sessions, chat_id, kind, origin) ==
  IF chat_id \notin DOMAIN sessions THEN {NoTask}
  ELSE
    LET session == sessions[chat_id]
        idx == session.idx
        qids == session.qids
    IN IF Finished(idx, qids)
       THEN {[kind |-> kind, pc |-> "send_board", chat_id |-> chat_id,
              session_id |-> session.session_id, idx |-> idx, qid |-> 0,
              opts |-> <<>>, coid |-> 0,
              text |-> FormatScoreboard("results", session.scores, TOP_LIMIT).lines,
              origin |-> origin]}
       ELSE LET q == QUIZ[QuestionAt(qids, idx)]
            IN {[kind |-> kind, pc |-> "send_poll", chat_id |-> chat_id,
                 session_id |-> session.session_id, idx |-> idx, qid |-> QuestionAt(qids, idx),
                 opts |-> ShufflePoll(q, idxs).opts,
                 coid |-> ShufflePoll(q, idxs).correct_option_id,
                 text |-> <<>>, origin |-> origin]
                : idxs \in Shuffles(Len(q.opts))}

Spawn(t) == IF t = NoTask THEN {} ELSE {t}

\* the module-level state of a fresh process
InitState ==
  /\ now = 0
  /\ GROUP_SESSIONS = <<>>
  /\ POLL_TO_GROUP = <<>>
  /\ scores_json = <<>>
  /\ jobs = {}
  /\ tasks = {}
  /\ boards = <<>>
  /\ posted = <<>>
  /\ adv = <<>>
  /\ answered = {}
  /\ created = <<>>
  /\ strays = <<>>
  /\ shown = <<>>
  /\ USER_STATE = <<>>
  /\ POLL_TO_PRIVATE = <<>>
  /\ sent = <<>>
  /\ reported = {}

Init == QUIZ = Bank(NumQuestions) /\ InitState

(***************************************************************************)
(* Time passes.  The program reads the clock in one place, quiz_cmd's      *)
(* session_id, and the JobQueue runs a job no earlier than its run time,   *)
(* possibly later.  So the clock is advanced to the next moment something  *)
(* can change: to the run time of the next waiting job, or, when none      *)
(* waits, by one second off a second that names a session.  Seconds in     *)
(* between only shift later timestamps.  The model covers the seconds      *)
(* 0..MaxTime: a job due later than that does not run in it.               *)
(***************************************************************************)
Waiting == {j \in jobs : j.rem > 0}

Elapse ==
  IF Waiting = {} THEN 1
  ELSE CHOOSE d \in {j.rem : j \in Waiting} : \A j \in Waiting : d <= j.rem

InUse(t) == \E i \in 1..Len(created) : created[i].session_id[2] = t

Tick ==
  /\ Waiting # {} \/ InUse(now)
  /\ now + Elapse <= MaxTime
  /\ now' = now + Elapse
  /\ jobs' = {[j EXCEPT !.rem = IF j.rem > Elapse THEN j.rem - Elapse ELSE 0] : j \in jobs}
  /\ UNCHANGED <<GROUP_SESSIONS, POLL_TO_GROUP, scores_json, tasks, boards,
                 posted, adv, answered, created, strays, shown>>
  /\ UNCHANGED <<QUIZ, dm>>

(***************************************************************************)
(* quiz_cmd in a non-private chat g, up to its first await.                *)
(***************************************************************************)
QuizCmd(g) ==
  /\ ~UpdateBusy
  /\ IF AlreadyActive(g)
     THEN /\ tasks' = tasks \cup {[NoTask EXCEPT !.kind = "update", !.pc = "reply_busy",
                                                 !.chat_id = g]}
          /\ UNCHANGED <<GROUP_SESSIONS, created>>
     ELSE /\ now < MaxTime
          /\ Len(created) < MaxSessions
          /\ LET session_id == SessionId(g, now)
                 qcount == Min(GROUP_QUIZ_LEN, QuizLen)
             IN \E qids \in Sample(QuizLen, qcount) :
                  /\ GROUP_SESSIONS' =
                       [c \in DOMAIN GROUP_SESSIONS \cup {g} |->
                          IF c = g THEN [session_id |-> session_id, qids |-> qids,
                                         idx |-> 0, scores |-> <<>>]
                          ELSE GROUP_SESSIONS[c]]
                  /\ created' = Append(created, [chat_id |-> g, session_id |-> session_id,
                                                 qids |-> qids])
                  /\ tasks' = tasks \cup {[NoTask EXCEPT !.kind = "update",
                                                         !.pc = "reply_start",
                                                         !.chat_id = g,
                                                         !.session_id = session_id]}
  /\ UNCHANGED <<now, POLL_TO_GROUP, scores_json, jobs, boards, posted, adv, answered,
                 strays, shown>>
  /\ UNCHANGED <<QUIZ, dm>>

\* the "already in progress" reply returns or raises; quiz_cmd returns
ReplyBusyDone(t, ok) ==
  /\ t \in tasks /\ t.pc = "reply_busy"
  /\ tasks' = tasks \ {t}
  /\ UNCHANGED <<now, GROUP_SESSIONS, POLL_TO_GROUP, scores_json, jobs, boards,
                 posted, adv, answered, created, strays, shown>>
  /\ UNCHANGED <<QUIZ, dm>>

\* the "Starting group quiz" reply returns: quiz_cmd goes on into
\* _send_next_group_question; or it raises: quiz_cmd ends
ReplyStartDone(t, ok) ==
  /\ t \in tasks /\ t.pc = "reply_start"
  /\ IF ok
     THEN \E n \in SendNextGroupQuestion(GROUP_SESSIONS, t.chat_id, "update", 0) :
               tasks' = (tasks \ {t}) \cup Spawn(n)
     ELSE tasks' = tasks \ {t}
  /\ UNCHANGED <<now, GROUP_SESSIONS, POLL_TO_GROUP, scores_json, jobs, boards,
                 posted, adv, answered, created, strays, shown>>
  /\ UNCHANGED <<QUIZ, dm>>

(***************************************************************************)
(* send_poll returns: the poll is recorded in POLL_TO_GROUP and the        *)
(* advance job is armed, GROUP_Q_OPEN_PERIOD + 1 seconds ahead, with the   *)
(* session_id read from the session object the coroutine holds and the     *)
(* idx it read before the await; the return and the two statements after   *)
(* it are one step.  Or send_poll raises: nothing is recorded or armed.    *)
(***************************************************************************)
\* when=GROUP_Q_OPEN_PERIOD + 1
ArmDelay == GROUP_Q_OPEN_PERIOD + 1

SendPollDone(t, ok) ==
  /\ t \in tasks /\ t.pc = "send_poll"
  /\ tasks' = tasks \ {t}
  /\ IF ok
     THEN LET poll_id == Len(POLL_TO_GROUP) + 1
          IN /\ POLL_TO_GROUP' = Append(POLL_TO_GROUP,
                   [chat_id |-> t.chat_id, correct_option_id |-> t.coid,
                    session_id |-> t.session_id])
             /\ jobs' = jobs \cup {[chat_id |-> t.chat_id, session_id |-> t.session_id,
                                    idx |-> t.idx, rem |-> ArmDelay, poll |-> poll_id]}
             /\ posted' = Append(posted, [chat_id |-> t.chat_id,
                                          session_id |-> t.session_id,
                                          idx |-> t.idx, qid |-> t.qid,
                                          opts |-> t.opts])
             /\ adv' = Append(adv, 0)
     ELSE UNCHANGED <<POLL_TO_GROUP, jobs, posted, adv>>
  /\ UNCHANGED <<now, GROUP_SESSIONS, scores_json, boards, answered, created, strays, shown>>
  /\ UNCHANGED <<QUIZ, dm>>

\* the scoreboard message returns (the hint message is sent next) or raises
SendBoardDone(t, ok) ==
  /\ t \in tasks /\ t.pc = "send_board"
  /\ IF ok
     THEN /\ boards' = Append(boards, [chat_id |-> t.chat_id, session_id |-> t.session_id,
                                       idx |-> t.idx, lines |-> t.text])
          /\ tasks' = (tasks \ {t}) \cup {[t EXCEPT !.pc = "send_hint"]}
     ELSE /\ boards' = boards
          /\ tasks' = tasks \ {t}
  /\ UNCHANGED <<now, GROUP_SESSIONS, POLL_TO_GROUP, scores_json, jobs,
                 posted, adv, answered, created, strays, shown>>
  /\ UNCHANGED <<QUIZ, dm>>

\* GROUP_SESSIONS.pop(chat_id, None)
PopSession_keep(sessions, chat_id) == sessions

PopSession(sessions, chat_id) ==
  [c \in DOMAIN sessions \ {chat_id} |-> sessions[c]]

\* the "/leaderboard" hint returns: the session is removed; or it raises
SendHintDone(t, ok) ==
  /\ t \in tasks /\ t.pc = "send_hint"
  /\ tasks' = tasks \ {t}
  /\ IF ok
     THEN GROUP_SESSIONS' = PopSession(GROUP_SESSIONS, t.chat_id)
     ELSE UNCHANGED GROUP_SESSIONS
  /\ UNCHANGED <<now, boards, POLL_TO_GROUP, scores_json, jobs, posted, adv, answered, created, strays, shown>>
  /\ UNCHANGED <<QUIZ, dm>>

(***************************************************************************)
(* _group_next_question_job run with job data j, up to its first await.    *)
(***************************************************************************)
JobBody(j) ==
  IF ~SameSession(GROUP_SESSIONS, j.chat_id, j.session_id)
  THEN UNCHANGED <<GROUP_SESSIONS, tasks, adv>>
  ELSE LET sessions == [GROUP_SESSIONS EXCEPT ![j.chat_id].idx = @ + 1]
       IN /\ GROUP_SESSIONS' = sessions
          /\ adv' = IF j.poll \in 1..Len(adv) THEN [adv EXCEPT ![j.poll] = @ + 1] ELSE adv
          /\ \E n \in SendNextGroupQuestion(sessions, j.chat_id, "job", j.poll) :
               tasks' = tasks \cup Spawn(n)

\* run_once: a job that has run is no longer armed
AfterRun_repeating(js, j) == js

AfterRun(js, j) == js \ {j}

\* the JobQueue runs an armed job when its time has come
GroupNextQuestionJob(j) ==
  /\ j \in jobs /\ j.rem = 0
  /\ jobs' = AfterRun(jobs, j)
  /\ JobBody(j)
  /\ UNCHANGED <<now, POLL_TO_GROUP, scores_json, boards, posted, answered, created, strays, shown>>
  /\ UNCHANGED <<QUIZ, dm>>

\* add_group_point_cumulative: load scores.json, upsert, save
AddGroupPointCumulative_fresh(scores, chat_id, user, delta) ==
  [k \in DOMAIN scores \cup {chat_id} |->
     IF k = chat_id THEN AddPoint(<<>>, user, delta) ELSE scores[k]]

AddGroupPointCumulative(scores, chat_id, user, delta) ==
  LET c == IF chat_id \in DOMAIN scores THEN scores[chat_id] ELSE <<>>
  IN [k \in DOMAIN scores \cup {chat_id} |->
        IF k = chat_id THEN AddPoint(c, user, delta) ELSE scores[k]]

\* reset_group_scores
ResetGroupScores_all(scores, chat_id) == <<>>

ResetGroupScores(scores, chat_id) ==
  [k \in DOMAIN scores \ {chat_id} |-> scores[k]]

\* the transport's guarantee: a user's answer to a poll is delivered once
AlreadyAnswered_never(p, u) == FALSE

AlreadyAnswered(p, u) == \E a \in answered : a.poll = p /\ a.user = u

\* on_poll_answer, line 363: chosen == correct
IsCorrect_orRetracted(chosen, correct) == chosen = correct \/ chosen = None

IsCorrect(chosen, correct) == chosen = correct

\* history: what the session poll p was posted for is now
SessionSeen(p) ==
  LET g == posted[p].chat_id
  IN IF g \notin DOMAIN GROUP_SESSIONS THEN "gone"
     ELSE IF GROUP_SESSIONS[g].session_id # posted[p].session_id THEN "replaced"
     ELSE IF GROUP_SESSIONS[g].idx # posted[p].idx THEN "past"
     ELSE "current"

(***************************************************************************)
(* on_poll_answer for a poll of POLL_TO_GROUP: user u chose option         *)
(* `chosen` (None: the vote was retracted) in poll p.  The group branch    *)
(* has no await.  The transport delivers one answer per user and poll, at  *)
(* any time after the poll was posted.                                     *)
(***************************************************************************)
OnPollAnswer(p, u, chosen) ==
  /\ ~UpdateBusy
  /\ p \in 1..Len(POLL_TO_GROUP)
  /\ ~AlreadyAnswered(p, u)
  /\ Cardinality(answered) < MaxAnswers
  /\ LET meta == POLL_TO_GROUP[p]
         chat_id == meta.chat_id
         a == [poll |-> p, user |-> u, chosen |-> chosen, seen |-> SessionSeen(p)]
     IN IF StillSameSession(GROUP_SESSIONS, chat_id, meta.session_id)
           /\ IsCorrect(chosen, meta.correct_option_id)
        THEN /\ GROUP_SESSIONS' = [GROUP_SESSIONS EXCEPT ![chat_id].scores =
                                     AddPoint(@, UserObj(u), 1)]
             /\ scores_json' = AddGroupPointCumulative(scores_json, chat_id, UserObj(u), 1)
             /\ answered' = answered \cup {a @@ [ledger |-> "counted"]}
        ELSE /\ UNCHANGED <<GROUP_SESSIONS, scores_json>>
             /\ answered' = answered \cup {a @@ [ledger |-> "none"]}
  /\ UNCHANGED <<now, POLL_TO_GROUP, jobs, tasks, boards, posted, adv, created, strays, shown>>
  /\ UNCHANGED <<QUIZ, dm>>

\* reset_scores_cmd in a non-private chat, up to its await
ResetScoresCmd(g) ==
  /\ ~UpdateBusy
  /\ scores_json' = ResetGroupScores(scores_json, g)
  /\ tasks' = tasks \cup {[NoTask EXCEPT !.kind = "update", !.pc = "reply_reset",
                                         !.chat_id = g]}
  /\ answered' = {IF posted[a.poll].chat_id = g /\ a.ledger = "counted"
                  THEN [a EXCEPT !.ledger = "reset"] ELSE a : a \in answered}
  /\ UNCHANGED <<now, GROUP_SESSIONS, POLL_TO_GROUP, jobs, boards, posted, adv,
                 created, strays, shown>>
  /\ UNCHANGED <<QUIZ, dm>>

ReplyResetDone(t, ok) ==
  /\ t \in tasks /\ t.pc = "reply_reset"
  /\ tasks' = tasks \ {t}
  /\ UNCHANGED <<now, GROUP_SESSIONS, POLL_TO_GROUP, scores_json, jobs, boards,
                 posted, adv, answered, created, strays, shown>>
  /\ UNCHANGED <<QUIZ, dm>>

\* the options a user can choose in poll p
Choices(p) == {None} \cup (0..(Len(posted[p].opts) - 1))

\* an await of the transport ends: it returns (ok) or raises
AwaitDone(ok) ==
  \E t \in tasks :
    \/ ReplyBusyDone(t, ok)
    \/ ReplyStartDone(t, ok)
    \/ SendPollDone(t, ok)
    \/ SendBoardDone(t, ok)
    \/ SendHintDone(t, ok)
    \/ ReplyResetDone(t, ok)

Fire == \E j \in jobs : GroupNextQuestionJob(j)

Command == \E g \in Groups : QuizCmd(g) \/ ResetScoresCmd(g)

Answer ==
  \E p \in 1..Len(POLL_TO_GROUP) : \E u \in Users : \E chosen \in Choices(p) :
    OnPollAnswer(p, u, chosen)

Next ==
  \/ Tick
  \/ Command
  \/ Answer
  \/ Fire
  \/ \E ok \in BOOLEAN : AwaitDone(ok)

Spec == Init /\ [][Next]_vars

(***************************************************************************)
(* LiveSpec: the transport never raises, the event loop resumes every      *)
(* coroutine whose await has returned, the JobQueue runs every job whose   *)
(* time has come, and time passes.                                         *)
(***************************************************************************)
AwaitDoneOf(kind) ==
  \E t \in tasks :
    /\ t.kind = kind
    /\ \/ ReplyBusyDone(t, TRUE)
       \/ ReplyStartDone(t, TRUE)
       \/ SendPollDone(t, TRUE)
       \/ SendBoardDone(t, TRUE)
       \/ SendHintDone(t, TRUE)
       \/ ReplyResetDone(t, TRUE)

LiveNext ==
  \/ Tick
  \/ Command
  \/ Answer
  \/ Fire
  \/ AwaitDone(TRUE)

LiveSpec ==
  /\ Init
  /\ [][LiveNext]_vars
  /\ WF_vars(Tick)
  /\ WF_vars(Fire)
  /\ WF_vars(AwaitDoneOf("update"))
  /\ WF_vars(AwaitDoneOf("job"))

(***************************************************************************)
(* JobSpec: the program, and _group_next_question_job also called with     *)
(* the data of a job whose session is gone or has been replaced.  In the   *)
(* program itself every job that runs finds the session it was armed for   *)
(* (there is no stop command, and a session is removed only by the job     *)
(* chain of its last question), so the callback's guard is exercised by    *)
(* calling it with such data directly.                                     *)
(***************************************************************************)
MaxStray == 2

\* history: what the job data (g, sid) finds in GROUP_SESSIONS
JobFinds(g, sid) ==
  IF g \notin DOMAIN GROUP_SESSIONS THEN "none"
  ELSE IF GROUP_SESSIONS[g].session_id # sid THEN "other"
  ELSE "same"

StrayJob(g, sid) ==
  /\ Len(strays) < MaxStray
  /\ JobFinds(g, sid) # "same"
  /\ strays' = Append(strays, JobFinds(g, sid))
  /\ JobBody([chat_id |-> g, session_id |-> sid, idx |-> 0, rem |-> 0, poll |-> 0])
  /\ UNCHANGED <<now, POLL_TO_GROUP, scores_json, jobs, boards, posted, answered,
                 created, shown>>
  /\ UNCHANGED <<QUIZ, dm>>

\* the session_ids of the sessions created so far, and one never given
KnownIds(g) ==
  {created[i].session_id : i \in 1..Len(created)} \cup {SessionId(g, MaxTime)}

Stray == \E g \in Groups : \E sid \in KnownIds(g) : StrayJob(g, sid)

JobNext ==
  \/ Tick
  \/ \E g \in Groups : QuizCmd(g)
  \/ Answer
  \/ Fire
  \/ \E ok \in BOOLEAN : AwaitDone(ok)
  \/ Stray

JobSpec == Init /\ [][JobNext]_vars

(***************************************************************************)
(* BoardSpec: the two ranking functions applied to score maps built by     *)
(* add_group_point_cumulative from users 1..BoardUsers, each joining in    *)
(* turn and earning up to BoardPoints points; then the map is read by      *)
(* leaderboard_cmd and by _format_scoreboard.                              *)
(***************************************************************************)
BoardUsers == 11
BoardPoints == 2

ChatScores(g) == IF g \in DOMAIN scores_json THEN scores_json[g] ELSE <<>>

Award(g, u) ==
  /\ shown = <<>>
  /\ u <= Len(ChatScores(g)) + 1
  /\ ScoreOf(ChatScores(g), u) < BoardPoints
  /\ scores_json' = AddGroupPointCumulative(scores_json, g, UserObj(u), 1)
  /\ UNCHANGED <<now, GROUP_SESSIONS, POLL_TO_GROUP, jobs, tasks, boards,
                 posted, adv, answered, created, strays, shown>>
  /\ UNCHANGED <<QUIZ, dm>>

\* leaderboard_cmd: rows = get_group_leaderboard(chat_id, limit=10)
LeaderboardCmd(g) ==
  /\ shown = <<>>
  /\ shown' = <<[by |-> "leaderboard",
                 rows |-> GetGroupLeaderboard(scores_json, g, TOP_LIMIT)]>>
  /\ UNCHANGED <<now, GROUP_SESSIONS, POLL_TO_GROUP, scores_json, jobs, tasks, boards,
                 posted, adv, answered, created, strays>>
  /\ UNCHANGED <<QUIZ, dm>>

\* _format_scoreboard(title, entries, limit=10) on the same map
ScoreboardOf(g) ==
  /\ Len(shown) = 1
  /\ shown' = Append(shown, [by |-> "scoreboard",
                             rows |-> FormatScoreboard("results", ChatScores(g),
                                                       TOP_LIMIT).lines])
  /\ UNCHANGED <<now, GROUP_SESSIONS, POLL_TO_GROUP, scores_json, jobs, tasks, boards,
                 posted, adv, answered, created, strays>>
  /\ UNCHANGED <<QUIZ, dm>>

BoardNext ==
  \/ \E u \in 1..BoardUsers : Award(1, u)
  \/ LeaderboardCmd(1)
  \/ ScoreboardOf(1)

BoardSpec == Init /\ [][BoardNext]_vars

(***************************************************************************)
(* DM mode: the sequential quiz of a private chat.  In a private chat the  *)
(* chat id is the user id.  Everything here runs in update handlers, one   *)
(* update at a time; an await of the transport returns or raises.          *)
(***************************************************************************)
NumDmUsers == 1       \* users 1..NumDmUsers talk to the bot in private
MaxDmPolls == 3       \* no command is taken up once this many DM polls are out

DmUsers == 1..NumDmUsers

\* the poll ids Telegram gives DM polls: apart from those of group polls
PollIdOf(k) == 1000 + k

\* the orders of the elements of the set S: list(S) then random.shuffle
Orders(S) ==
  {o \in [1..Cardinality(S) -> S] :
     \A i, j \in 1..Cardinality(S) : i # j => o[i] # o[j]}

\* new_order(): random.sample(range(len(QUIZ)), k=len(QUIZ))
NewOrder == Sample(QuizLen, QuizLen)

\* the dict quiz_cmd and retest_cmd assign to USER_STATE[uid]: "last_score"
\* is not a key of it ("history" is write-only and left out)
FreshState(order, mode) ==
  [order |-> order, idx |-> 0, wrong_ids |-> {}, correct_count |-> 0,
   total |-> Len(order), mode |-> mode, last_score |-> <<>>]

(***************************************************************************)
(* send_next_private up to its first await, on the states `us`: the        *)
(* USER_STATE it leaves and the coroutine it becomes.  At the end of the   *)
(* order the result is stored as last_score before the message is sent.    *)
(***************************************************************************)
SendNextPrivate(us, uid) ==
  LET st == us[uid]
  IN IF st.idx >= Len(st.order)
     THEN LET result == [correct |-> st.correct_count, total |-> st.total]
          IN {[us |-> [us EXCEPT ![uid].last_score = <<result>>],
               task |-> [NoTask EXCEPT !.kind = "update", !.pc = "dm_send_text",
                                       !.chat_id = uid, !.text = <<result>>]]}
     ELSE LET qid == st.order[st.idx + 1]
              q == QUIZ[qid]
          IN {[us |-> us,
               task |-> [NoTask EXCEPT !.kind = "update", !.pc = "dm_send_poll",
                                       !.chat_id = uid, !.qid = qid,
                                       !.opts = ShufflePoll(q, idxs).opts,
                                       !.coid = ShufflePoll(q, idxs).correct_option_id]]
              : idxs \in Shuffles(Len(q.opts))}

\* USER_STATE[uid] = st
SetState(us, uid, st) ==
  [v \in DOMAIN us \cup {uid} |-> IF v = uid THEN st ELSE us[v]]

\* quiz_cmd in the private chat of u (QUIZ is not empty), up to its await
PrivateQuizCmd(u) ==
  /\ ~UpdateBusy
  /\ Len(sent) < MaxDmPolls
  /\ \E order \in NewOrder :
       \E n \in SendNextPrivate(SetState(USER_STATE, u, FreshState(order, "full")), u) :
         /\ USER_STATE' = n.us
         /\ tasks' = tasks \cup {n.task}
  /\ UNCHANGED <<QUIZ, now, GROUP_SESSIONS, POLL_TO_GROUP, scores_json, jobs, boards,
                 posted, adv, answered, created, strays, shown,
                 POLL_TO_PRIVATE, sent, reported>>

\* list(USER_STATE.get(uid, {}).get("wrong_ids", []))
PrevWrong(u) == IF u \in DOMAIN USER_STATE THEN USER_STATE[u].wrong_ids ELSE {}

\* retest_cmd in the private chat of u, up to its await
RetestCmd(u) ==
  /\ ~UpdateBusy
  /\ Len(sent) < MaxDmPolls
  /\ IF PrevWrong(u) = {}
     THEN /\ tasks' = tasks \cup {[NoTask EXCEPT !.kind = "update", !.pc = "dm_send_text",
                                                 !.chat_id = u]}
          /\ UNCHANGED USER_STATE
     ELSE \E order \in Orders(PrevWrong(u)) :
            \E n \in SendNextPrivate(SetState(USER_STATE, u, FreshState(order, "retest")), u) :
              /\ USER_STATE' = n.us
              /\ tasks' = tasks \cup {n.task}
  /\ UNCHANGED <<QUIZ, now, GROUP_SESSIONS, POLL_TO_GROUP, scores_json, jobs, boards,
                 posted, adv, answered, created, strays, shown,
                 POLL_TO_PRIVATE, sent, reported>>

\* score_cmd of u, up to its await: the reply shows last_score when there is one
ScoreCmd(u) ==
  /\ ~UpdateBusy
  /\ Len(sent) < MaxDmPolls
  /\ LET last == IF u \in DOMAIN USER_STATE THEN USER_STATE[u].last_score ELSE <<>>
     IN tasks' = tasks \cup {[NoTask EXCEPT !.kind = "update", !.pc = "dm_send_text",
                                            !.chat_id = u, !.text = last]}
  /\ UNCHANGED <<QUIZ, now, GROUP_SESSIONS, POLL_TO_GROUP, scores_json, jobs, boards,
                 posted, adv, answered, created, strays, shown, dm>>

\* send_poll returns: POLL_TO_PRIVATE[msg.poll.id] = (uid, qid, correct_option_id);
\* or it raises
DmSendPollDone(t, ok) ==
  /\ t \in tasks /\ t.pc = "dm_send_poll"
  /\ tasks' = tasks \ {t}
  /\ IF ok
     THEN LET poll_id == PollIdOf(Len(sent) + 1)
          IN /\ POLL_TO_PRIVATE' =
                  [k \in DOMAIN POLL_TO_PRIVATE \cup {poll_id} |->
                     IF k = poll_id THEN [uid |-> t.chat_id, qid |-> t.qid,
                                          correct_option_id |-> t.coid]
                     ELSE POLL_TO_PRIVATE[k]]
             /\ sent' = Append(sent, [uid |-> t.chat_id, qid |-> t.qid, opts |-> t.opts,
                                      correct_option_id |-> t.coid])
     ELSE UNCHANGED <<POLL_TO_PRIVATE, sent>>
  /\ UNCHANGED <<QUIZ, now, GROUP_SESSIONS, POLL_TO_GROUP, scores_json, jobs, boards,
                 posted, adv, answered, created, strays, shown, USER_STATE, reported>>

\* a message of DM mode returns (a score it carries has been shown) or raises
DmSendTextDone(t, ok) ==
  /\ t \in tasks /\ t.pc = "dm_send_text"
  /\ tasks' = tasks \ {t}
  /\ reported' = IF ok THEN reported \cup {t.text[i] : i \in 1..Len(t.text)} ELSE reported
  /\ UNCHANGED <<QUIZ, now, GROUP_SESSIONS, POLL_TO_GROUP, scores_json, jobs, boards,
                 posted, adv, answered, created, strays, shown,
                 USER_STATE, POLL_TO_PRIVATE, sent>>

\* the private branch's update of the user's state, lines 384-389
Graded(st, qid, chosen, correct) ==
  [st EXCEPT !.correct_count = IF chosen = correct THEN @ + 1 ELSE @,
             !.wrong_ids = IF chosen = correct THEN @ ELSE @ \cup {qid},
             !.idx = @ + 1]

(***************************************************************************)
(* on_poll_answer for a poll that is not in POLL_TO_GROUP, up to its       *)
(* await: the entry of the poll is popped from POLL_TO_PRIVATE, the        *)
(* user's current state is graded and advanced, and send_next_private      *)
(* goes on from there.                                                     *)
(***************************************************************************)
OnPollAnswerPrivate(p, chosen) ==
  /\ ~UpdateBusy
  /\ p \notin 1..Len(POLL_TO_GROUP)
  /\ p \in DOMAIN POLL_TO_PRIVATE
  /\ POLL_TO_PRIVATE' = [k \in DOMAIN POLL_TO_PRIVATE \ {p} |-> POLL_TO_PRIVATE[k]]
  /\ LET entry == POLL_TO_PRIVATE[p]
     IN IF entry.uid \notin DOMAIN USER_STATE
        THEN UNCHANGED <<USER_STATE, tasks>>
        ELSE LET us == [USER_STATE EXCEPT ![entry.uid] =
                          Graded(@, entry.qid, chosen, entry.correct_option_id)]
             IN \E n \in SendNextPrivate(us, entry.uid) :
                  /\ USER_STATE' = n.us
                  /\ tasks' = tasks \cup {n.task}
  /\ UNCHANGED <<QUIZ, now, GROUP_SESSIONS, POLL_TO_GROUP, scores_json, jobs, boards,
                 posted, adv, answered, created, strays, shown, sent, reported>>

\* the options a user can choose in the DM poll p
DmChoices(p) ==
  {None} \cup (0..(Len(sent[CHOOSE k \in 1..Len(sent) : PollIdOf(k) = p].opts) - 1))

DmCommand == \E u \in DmUsers : PrivateQuizCmd(u) \/ RetestCmd(u) \/ ScoreCmd(u)

DmAnswer ==
  \E p \in DOMAIN POLL_TO_PRIVATE : \E chosen \in DmChoices(p) :
    OnPollAnswerPrivate(p, chosen)

DmAwaitDone(ok) == \E t \in tasks : DmSendPollDone(t, ok) \/ DmSendTextDone(t, ok)

PrivateNext ==
  \/ DmCommand
  \/ DmAnswer
  \/ \E ok \in BOOLEAN : DmAwaitDone(ok)

PrivateSpec == Init /\ [][PrivateNext]_vars

(***************************************************************************)
(* BankSpec: the group quiz over every bank of 1..MaxBank questions, so    *)
(* that both a bank smaller than GROUP_QUIZ_LEN and a larger one are       *)
(* sampled.  Nobody answers.                                               *)
(***************************************************************************)
MaxBank == 6

BankInit == QUIZ \in {Bank(n) : n \in 1..MaxBank} /\ InitState

BankNext ==
  \/ Tick
  \/ \E g \in Groups : QuizCmd(g)
  \/ Fire
  \/ \E ok \in BOOLEAN : AwaitDone(ok)

BankSpec == BankInit /\ [][BankNext]_vars

(***************************************************************************)
(* PairSpec: the program serving two groups at once, over a bank of one    *)
(* question and a transport that does not raise.                           *)
(***************************************************************************)
NumPairGroups == 2
PairBank == 1

PairGroups == 1..NumPairGroups

PairInit == QUIZ = Bank(PairBank) /\ InitState

PairNext ==
  \/ Tick
  \/ \E g \in PairGroups : QuizCmd(g) \/ ResetScoresCmd(g)
  \/ Answer
  \/ Fire
  \/ AwaitDone(TRUE)

PairSpec == PairInit /\ [][PairNext]_vars

(***************************************************************************)
(* PollSpec: the polls of both modes over a bank with a three-option       *)
(* question.  A group quiz is run first (nobody answers); once it has come *)
(* to rest, with no job armed and no coroutine waiting, a user takes the   *)
(* DM quiz, started by one command.                                        *)
(***************************************************************************)
PollBank == 3

PollInit == QUIZ = Bank(PollBank) /\ InitState

PollNext ==
  \/ Tick
  \/ \E g \in Groups : USER_STATE = <<>> /\ QuizCmd(g)
  \/ Fire
  \/ \E ok \in BOOLEAN : AwaitDone(ok)
  \/ jobs = {} /\ tasks = {} /\ sent = <<>> /\ DmCommand
  \/ DmAnswer
  \/ \E ok \in BOOLEAN : DmAwaitDone(ok)

PollSpec == PollInit /\ [][PollNext]_vars

(***************************************************************************)
(* Properties.                                                             *)
(***************************************************************************)
\* the qids the session `sid` was created with
QidsOf(sid) ==
  created[CHOOSE i \in 1..Len(created) : created[i].session_id = sid].qids

\* the polls posted for the session `sid`
PollsOf(sid) == {p \in 1..Len(posted) : posted[p].session_id = sid}

RECURSIVE SumAdv(_)
SumAdv(ps) ==
  IF ps = {} THEN 0
  ELSE LET p == CHOOSE x \in ps : TRUE IN adv[p] + SumAdv(ps \ {p})

\* how often a job has incremented the idx of the session `sid`
AdvSteps(sid) == SumAdv(PollsOf(sid))

\* the answers a step delivers
NewAnswers ==
  {a \in answered' : ~\E b \in answered : b.poll = a.poll /\ b.user = a.user}

BoardSent(sid) == \E i \in 1..Len(boards) : boards[i].session_id = sid

\* C1: a start request for a group that has a session is rejected and
\* leaves the sessions, the polls and the jobs as they were, as does the
\* end of the rejected handler; a start request for a group without a
\* session creates exactly one session, at idx 0 with no scores, and
\* touches no other session.
C1_StartExclusive ==
  [][\A g \in Groups :
       LET new == {t \in tasks' \ tasks : t.kind = "update" /\ t.chat_id = g
                                          /\ t.pc \in {"reply_busy", "reply_start"}}
       IN /\ new # {} =>
               IF g \in DOMAIN GROUP_SESSIONS
               THEN /\ \A t \in new : t.pc = "reply_busy"
                    /\ UNCHANGED <<GROUP_SESSIONS, POLL_TO_GROUP, jobs, posted, created>>
               ELSE /\ \A t \in new : t.pc = "reply_start"
                    /\ Len(created') = Len(created) + 1
                    /\ DOMAIN GROUP_SESSIONS' = DOMAIN GROUP_SESSIONS \cup {g}
                    /\ GROUP_SESSIONS'[g].idx = 0
                    /\ GROUP_SESSIONS'[g].scores = <<>>
                    /\ \A h \in DOMAIN GROUP_SESSIONS :
                         GROUP_SESSIONS'[h] = GROUP_SESSIONS[h]
                    /\ UNCHANGED <<POLL_TO_GROUP, jobs, posted>>
          /\ \A t \in tasks \ tasks' :
               t.pc = "reply_busy" =>
                 UNCHANGED <<GROUP_SESSIONS, POLL_TO_GROUP, jobs, posted, created>>
    ]_vars

\* a start request was rejected while the first session is running
C1_Witness ==
  \E t \in tasks :
    /\ t.pc = "reply_busy"
    /\ t.chat_id \in DOMAIN GROUP_SESSIONS
    /\ Len(created) = 1
    /\ Len(posted) >= 1

\* C2: idx stays within 0..len(qids) and never decreases; a scoreboard is
\* sent and a session removed only after exactly len(qids) increments of
\* idx by the job, and no session is ever advanced more often than that.
C2_PositionBounded ==
  /\ [](\A g \in DOMAIN GROUP_SESSIONS :
          /\ 0 <= GROUP_SESSIONS[g].idx
          /\ GROUP_SESSIONS[g].idx <= Len(GROUP_SESSIONS[g].qids))
  /\ [](\A i \in 1..Len(created) :
          AdvSteps(created[i].session_id) <= Len(created[i].qids))
  /\ [][/\ \A g \in DOMAIN GROUP_SESSIONS \cap DOMAIN GROUP_SESSIONS' :
             GROUP_SESSIONS'[g].session_id = GROUP_SESSIONS[g].session_id
               => GROUP_SESSIONS'[g].idx >= GROUP_SESSIONS[g].idx
        /\ \A g \in DOMAIN GROUP_SESSIONS \ DOMAIN GROUP_SESSIONS' :
             /\ AdvSteps(GROUP_SESSIONS[g].session_id) = Len(GROUP_SESSIONS[g].qids)
             /\ BoardSent(GROUP_SESSIONS[g].session_id)
        /\ Len(boards') > Len(boards) =>
             LET b == boards'[Len(boards')]
             IN AdvSteps(b.session_id) = Len(QidsOf(b.session_id))
       ]_vars

\* a session has run to its end: its scoreboard is out and it is removed
C2_Witness ==
  /\ Len(boards) >= 1
  /\ Len(created) >= 1
  /\ created[1].chat_id \notin DOMAIN GROUP_SESSIONS

\* C3: the timer of a posted question increments idx at most once, and no
\* armed job is bound to a question after which the same session has
\* posted another.
C3_TimerOncePerQuestion ==
  /\ \A p \in 1..Len(adv) : adv[p] <= 1
  /\ \A j \in jobs : \A p \in 1..Len(posted) :
       (p > j.poll /\ posted[p].chat_id = j.chat_id)
         => posted[p].session_id # j.session_id

\* the timer of one question has fired and the next question is posted
C3_Witness ==
  \E p, q \in 1..Len(posted) :
    /\ p < q
    /\ posted[p].session_id = posted[q].session_id
    /\ adv[p] = 1
    /\ \E j \in jobs : j.poll = q

\* C4: an answer to the poll of a question its session has advanced past
\* changes neither the session's scores nor the cumulative ledger.
C4_PastAnswerDiscarded ==
  [][\A a \in NewAnswers :
       a.seen = "past" => UNCHANGED <<GROUP_SESSIONS, scores_json>>]_vars

\* C5: an answer to a poll whose session is gone or has been replaced
\* changes no session and no ledger entry and sends nothing.
C5_DeadAnswerDiscarded ==
  [][\A a \in NewAnswers :
       a.seen \in {"gone", "replaced"}
         => UNCHANGED <<GROUP_SESSIONS, scores_json, tasks, boards, jobs, POLL_TO_GROUP>>
    ]_vars

\* one answer came after its session had ended, another after a later
\* session had taken its place
C5_Witness ==
  /\ \E a \in answered : a.seen = "gone"
  /\ \E a \in answered : a.seen = "replaced"

\* C6: a job that finds no session of its group, or a session with another
\* session_id, changes nothing and sends nothing.
C6_StaleJobNoop ==
  [][/\ \A j \in jobs \ jobs' :
          JobFinds(j.chat_id, j.session_id) # "same"
            => UNCHANGED <<GROUP_SESSIONS, POLL_TO_GROUP, scores_json, tasks, boards,
                           posted>>
     /\ Len(strays') > Len(strays) =>
          (strays'[Len(strays')] # "same"
             => UNCHANGED <<GROUP_SESSIONS, POLL_TO_GROUP, scores_json, tasks, boards,
                            posted, jobs>>)
    ]_vars

\* a job has run for a group without a session, and one for a session that
\* had been replaced, the running session holding a score
C6_Witness ==
  /\ \E i \in 1..Len(strays) : strays[i] = "none"
  /\ \E i \in 1..Len(strays) : strays[i] = "other"
  /\ \E g \in DOMAIN GROUP_SESSIONS : GROUP_SESSIONS[g].scores # <<>>

\* C7: when no coroutine is at work for a session that has posted a
\* question and has questions left, idx is the position of the question
\* it posted last.
C7_PositionIntact ==
  \A g \in DOMAIN GROUP_SESSIONS :
    LET s == GROUP_SESSIONS[g]
        ps == {p \in PollsOf(s.session_id) : posted[p].chat_id = g}
    IN (/\ ~\E t \in tasks : t.chat_id = g
        /\ ps # {}
        /\ s.idx < Len(s.qids))
       => \E p \in ps : /\ \A q \in ps : q <= p
                        /\ posted[p].idx = s.idx

\* the session of g can run to its end within the seconds the model covers
InHorizon(g) ==
  /\ g \in DOMAIN GROUP_SESSIONS
  /\ GROUP_SESSIONS[g].session_id[2] + 1
       + (GROUP_Q_OPEN_PERIOD + 1) * Len(GROUP_SESSIONS[g].qids) <= MaxTime

\* C8: with a transport that never raises and fair scheduling, a session
\* (one the model's horizon leaves time for) is eventually removed; it is
\* removed only with its scoreboard sent; and a start request taken up
\* while the group has no session creates one.
C8_SessionCompletes ==
  /\ \A g \in Groups : InHorizon(g) ~> (g \notin DOMAIN GROUP_SESSIONS)
  /\ [][\A g \in Groups :
          /\ (g \in DOMAIN GROUP_SESSIONS /\ g \notin DOMAIN GROUP_SESSIONS')
               => \E i \in 1..Len(boards') :
                    boards'[i].session_id = GROUP_SESSIONS[g].session_id
          /\ (/\ g \notin DOMAIN GROUP_SESSIONS
              /\ \E t \in tasks' \ tasks : t.chat_id = g
                                           /\ t.pc \in {"reply_busy", "reply_start"})
               => /\ g \in DOMAIN GROUP_SESSIONS'
                  /\ GROUP_SESSIONS'[g].idx = 0
       ]_vars

\* the first session of a group is over, its scoreboard sent, and the
\* group's next start request has created a second session
C8_Witness ==
  /\ Len(created) = 2
  /\ created[2].chat_id = created[1].chat_id
  /\ BoardSent(created[1].session_id)
  /\ created[2].chat_id \in DOMAIN GROUP_SESSIONS
  /\ GROUP_SESSIONS[created[2].chat_id].session_id = created[2].session_id

\* C9: the k-th poll posted for a session is its question qids[k-1], it is
\* posted only after the timers of the session's earlier polls have
\* advanced the session, and a session whose scoreboard is out has posted
\* each of its questions.
C9_QuestionsInOrder ==
  /\ \A p \in 1..Len(posted) :
       LET r == posted[p]
           qs == QidsOf(r.session_id)
           earlier == {q \in PollsOf(r.session_id) : q < p}
       IN /\ r.idx = Cardinality(earlier)
          /\ r.idx < Len(qs)
          /\ r.qid = qs[r.idx + 1]
          /\ \A q \in earlier : adv[q] >= 1
  /\ \A i \in 1..Len(boards) :
       Cardinality(PollsOf(boards[i].session_id)) = Len(QidsOf(boards[i].session_id))

\* a session has posted all its questions and its scoreboard is out
C9_Witness ==
  \E i \in 1..Len(boards) :
    /\ Cardinality(PollsOf(boards[i].session_id)) = NumQuestions
    /\ NumQuestions >= 2

\* r1 ranks before r2: more points, or as many and the smaller name once
\* case is ignored
Before(r1, r2) ==
  \/ r1.score > r2.score
  \/ r1.score = r2.score /\ StrLess(Lower(r1.name), Lower(r2.name))

\* rows is the head, at most TOP_LIMIT long, of a ranking of the entries
Ranked(rows, entries) ==
  LET all == [k \in 1..Len(entries) |->
                [name |-> entries[k].name, score |-> entries[k].score]]
  IN /\ Len(rows) = Min(TOP_LIMIT, Len(entries))
     /\ \A i, j \in 1..Len(rows) : i < j => ~Before(rows[j], rows[i])
     /\ \A i, j \in 1..Len(rows) : i # j => rows[i] # rows[j]
     /\ \A i \in 1..Len(rows) : \E k \in 1..Len(all) : all[k] = rows[i]
     /\ \A k \in 1..Len(all) :
          (\A i \in 1..Len(rows) : rows[i] # all[k])
            => \A i \in 1..Len(rows) : ~Before(all[k], rows[i])

\* C10: _format_scoreboard and get_group_leaderboard list a score map by
\* descending points, ties by ascending name ignoring case, cut to the
\* first 10; the rows leaderboard_cmd and the scoreboard showed are those;
\* and {A:3, B:5, C:3} gives B, A, C.
C10_Ranked ==
  /\ Ranked(FormatScoreboard("results", ChatScores(1), TOP_LIMIT).lines, ChatScores(1))
  /\ Ranked(GetGroupLeaderboard(scores_json, 1, TOP_LIMIT), ChatScores(1))
  /\ \A i \in 1..Len(shown) : Ranked(shown[i].rows, ChatScores(1))
  /\ Take(SortRows(<<[name |-> <<65>>, score |-> 3], [name |-> <<66>>, score |-> 5],
                     [name |-> <<67>>, score |-> 3]>>), TOP_LIMIT)
       = <<[name |-> <<66>>, score |-> 5], [name |-> <<65>>, score |-> 3],
           [name |-> <<67>>, score |-> 3]>>

\* more than 10 entries, two of them tied on points with names whose order
\* depends on case, have been read by both functions
C10_Witness ==
  /\ Len(shown) = 2
  /\ Len(ChatScores(1)) > TOP_LIMIT
  /\ ScoreOf(ChatScores(1), 2) = ScoreOf(ChatScores(1), 3)
  /\ Len(shown[1].rows) = TOP_LIMIT
  /\ Len(shown[2].rows) = TOP_LIMIT

\* the option list opts of a poll is a shuffle of the options of question q
\* and opts[coid] is q's correct option
ShuffleRight(q, opts, coid) ==
  /\ Len(opts) = Len(q.opts)
  /\ \A k \in 1..Len(q.opts) : \E i \in 1..Len(opts) : opts[i] = q.opts[k]
  /\ coid \in 0..(Len(opts) - 1)
  /\ opts[coid + 1] = q.opts[q.answer + 1]

\* C11: in every poll handed to the transport, and in every poll posted,
\* the correct_option_id (the one stored in POLL_TO_GROUP or
\* POLL_TO_PRIVATE) is the place of the bank's correct option in the
\* shuffled option list.
C11_CorrectOptionPlaced ==
  /\ \A t \in tasks :
       t.pc \in {"send_poll", "dm_send_poll"} => ShuffleRight(QUIZ[t.qid], t.opts, t.coid)
  /\ \A p \in 1..Len(posted) :
       ShuffleRight(QUIZ[posted[p].qid], posted[p].opts, POLL_TO_GROUP[p].correct_option_id)
  /\ \A k \in 1..Len(sent) :
       /\ ShuffleRight(QUIZ[sent[k].qid], sent[k].opts, sent[k].correct_option_id)
       /\ PollIdOf(k) \in DOMAIN POLL_TO_PRIVATE =>
            /\ POLL_TO_PRIVATE[PollIdOf(k)].correct_option_id = sent[k].correct_option_id
            /\ POLL_TO_PRIVATE[PollIdOf(k)].qid = sent[k].qid

\* a group poll and a DM poll of the three-option question are out, each
\* with the options out of bank order and the correct option moved
C11_Witness ==
  /\ \E p \in 1..Len(posted) :
       /\ Len(posted[p].opts) = 3
       /\ posted[p].opts # QUIZ[posted[p].qid].opts
       /\ POLL_TO_GROUP[p].correct_option_id # QUIZ[posted[p].qid].answer
  /\ \E k \in 1..Len(sent) :
       /\ Len(sent[k].opts) = 3
       /\ sent[k].opts # QUIZ[sent[k].qid].opts
       /\ PollIdOf(k) \in DOMAIN POLL_TO_PRIVATE
       /\ POLL_TO_PRIVATE[PollIdOf(k)].correct_option_id # QUIZ[sent[k].qid].answer

\* C12: the qids of a session are pairwise distinct indices into the bank,
\* GROUP_QUIZ_LEN of them, or as many as the bank has when it has fewer;
\* and they stay what they were at creation for as long as the session
\* lives.
C12_QidsSampled ==
  /\ [](\A g \in DOMAIN GROUP_SESSIONS :
          LET qids == GROUP_SESSIONS[g].qids
          IN /\ \A i \in 1..Len(qids) : qids[i] \in DOMAIN QUIZ
             /\ \A i, j \in 1..Len(qids) : i # j => qids[i] # qids[j]
             /\ Len(qids) = IF QuizLen < GROUP_QUIZ_LEN THEN QuizLen ELSE GROUP_QUIZ_LEN
             /\ qids = QidsOf(GROUP_SESSIONS[g].session_id))
  /\ [][\A g \in DOMAIN GROUP_SESSIONS \cap DOMAIN GROUP_SESSIONS' :
          GROUP_SESSIONS'[g].session_id = GROUP_SESSIONS[g].session_id
            => GROUP_SESSIONS'[g].qids = GROUP_SESSIONS[g].qids]_vars

\* a session over a bank of more than GROUP_QUIZ_LEN questions has advanced
\* twice
C12_Witness ==
  /\ QuizLen > GROUP_QUIZ_LEN
  /\ \E g \in DOMAIN GROUP_SESSIONS :
       /\ Len(GROUP_SESSIONS[g].qids) = GROUP_QUIZ_LEN
       /\ GROUP_SESSIONS[g].idx = 2

\* the answers of user u in group g whose point is in the ledger
Counted(g, u) ==
  {a \in answered : a.user = u /\ posted[a.poll].chat_id = g /\ a.ledger = "counted"}

\* C13: the ledger entry of (g, u) is the number of u's accepted correct
\* answers in g since the last reset of g, and there is an entry exactly
\* when that number is positive; a step that is not a reset of g never
\* lowers an entry of g; and an accepted correct answer adds exactly 1 to
\* the entry of its user (created if absent) and leaves every other entry.
C13_LedgerCounts ==
  /\ [](\A g \in Groups : \A u \in Users :
          /\ ScoreOf(ChatScores(g), u) = Cardinality(Counted(g, u))
          /\ HasKey(ChatScores(g), u) <=> Counted(g, u) # {})
  /\ [][\A g \in Groups : \A u \in Users :
          /\ (~\E t \in tasks' \ tasks : t.pc = "reply_reset" /\ t.chat_id = g)
               => /\ ScoreOf(ChatScores(g), u)' >= ScoreOf(ChatScores(g), u)
                  /\ HasKey(ChatScores(g), u) => HasKey(ChatScores(g), u)'
          /\ \A a \in NewAnswers :
               (a.ledger = "counted" /\ posted[a.poll].chat_id = g)
                 => /\ HasKey(ChatScores(g), u)' <=> (HasKey(ChatScores(g), u) \/ a.user = u)
                    /\ ScoreOf(ChatScores(g), u)' =
                         ScoreOf(ChatScores(g), u) + (IF a.user = u THEN 1 ELSE 0)
       ]_vars

\* a user has two points in the ledger of a group, from two accepted answers
C13_Witness ==
  \E g \in Groups : \E u \in Users :
    /\ ScoreOf(ChatScores(g), u) = 2
    /\ Cardinality(Counted(g, u)) = 2

\* the score map `after` is `before` with one point more for user u, whose
\* entry is there and carries u's display name, and nothing else changed
OnePointMore(before, after, u) ==
  /\ HasKey(after, u)
  /\ after[KeyIndex(after, u)].name = DisplayName(UserObj(u))
  /\ ScoreOf(after, u) = ScoreOf(before, u) + 1
  /\ \A v \in Users \ {u} :
       /\ HasKey(after, v) <=> HasKey(before, v)
       /\ HasKey(before, v) => after[KeyIndex(after, v)] = before[KeyIndex(before, v)]

\* C14: an answer taken up while its poll's session is the group's current
\* one gives, when the chosen option is the poll's correct_option_id, one
\* point to the answering user in the session scores and one in the
\* ledger and changes nothing else of the session; an answer with another
\* option or with none changes neither.
C14_AnswerScoring ==
  [][\A a \in NewAnswers :
       a.seen \in {"current", "past"} =>
         LET g == posted[a.poll].chat_id
         IN IF a.chosen = POLL_TO_GROUP[a.poll].correct_option_id
            THEN /\ OnePointMore(GROUP_SESSIONS[g].scores, GROUP_SESSIONS'[g].scores, a.user)
                 /\ OnePointMore(ChatScores(g), ChatScores(g)', a.user)
                 /\ GROUP_SESSIONS' = [GROUP_SESSIONS EXCEPT ![g].scores =
                                         GROUP_SESSIONS'[g].scores]
            ELSE UNCHANGED <<GROUP_SESSIONS, scores_json>>
    ]_vars

\* in a running session one user has retracted a vote and another has a
\* point for the correct option
C14_Witness ==
  \E a, b \in answered :
    /\ a.seen = "current" /\ a.chosen = None
    /\ b.seen = "current" /\ b.chosen = POLL_TO_GROUP[b.poll].correct_option_id
    /\ \E g \in DOMAIN GROUP_SESSIONS :
         /\ ScoreOf(GROUP_SESSIONS[g].scores, b.user) = 1
         /\ ~HasKey(GROUP_SESSIONS[g].scores, a.user)

\* C15: no two sessions ever created for a group have the same session_id,
\* so the session_id a poll or an armed job carries names one run only.
C15_SessionIdsDistinct ==
  /\ \A i, j \in 1..Len(created) :
       (i # j /\ created[i].chat_id = created[j].chat_id)
         => created[i].session_id # created[j].session_id
  /\ \A p \in 1..Len(POLL_TO_GROUP) :
       Cardinality({i \in 1..Len(created) :
                      /\ created[i].chat_id = POLL_TO_GROUP[p].chat_id
                      /\ created[i].session_id = POLL_TO_GROUP[p].session_id}) = 1
  /\ \A j \in jobs :
       Cardinality({i \in 1..Len(created) :
                      /\ created[i].chat_id = j.chat_id
                      /\ created[i].session_id = j.session_id}) = 1

\* a group is in its second run, which has posted a poll, while a poll of
\* its first run is still in POLL_TO_GROUP
C15_Witness ==
  \E g \in DOMAIN GROUP_SESSIONS : \E p, q \in 1..Len(POLL_TO_GROUP) :
    /\ POLL_TO_GROUP[p].chat_id = g
    /\ POLL_TO_GROUP[q].chat_id = g
    /\ POLL_TO_GROUP[p].session_id # GROUP_SESSIONS[g].session_id
    /\ POLL_TO_GROUP[q].session_id = GROUP_SESSIONS[g].session_id

\* the session record of group h, if any
SessionOf(sessions, h) == IF h \in DOMAIN sessions THEN <<sessions[h]>> ELSE <<>>

\* the ledger entries of group h, if any
LedgerOf(scores, h) == IF h \in DOMAIN scores THEN <<scores[h]>> ELSE <<>>

\* the step is one of an event of group h: a command of h is taken up, an
\* await of a coroutine of h ends, a due job of h runs, or an answer to a
\* poll of h is delivered
EventFor(h) ==
  \/ \E t \in tasks' \ tasks : t.chat_id = h
  \/ \E t \in tasks \ tasks' : t.chat_id = h
  \/ \E j \in jobs \ jobs' : j.chat_id = h /\ j.rem = 0
  \/ \E a \in NewAnswers : posted[a.poll].chat_id = h

\* C16: a step changes the session record and the ledger entries of a group
\* only if it is a step of an event of that group, and no step is one of
\* events of two groups: a start request, an answer, a timer firing or a
\* reset for G leaves the session and the ledger of every other group.
C16_GroupsIndependent ==
  [][/\ \A h \in PairGroups :
          (\/ SessionOf(GROUP_SESSIONS', h) # SessionOf(GROUP_SESSIONS, h)
           \/ LedgerOf(scores_json', h) # LedgerOf(scores_json, h))
            => EventFor(h)
     /\ \A g, h \in PairGroups : (EventFor(g) /\ EventFor(h)) => g = h
    ]_vars

\* while both groups run a session that holds a score, the ledger of one
\* has been reset and the ledger of the other holds its entry
C16_Witness ==
  \E g, h \in PairGroups :
    /\ g # h
    /\ g \in DOMAIN GROUP_SESSIONS /\ GROUP_SESSIONS[g].scores # <<>>
    /\ h \in DOMAIN GROUP_SESSIONS /\ GROUP_SESSIONS[h].scores # <<>>
    /\ \E a \in answered : posted[a.poll].chat_id = g /\ a.ledger = "reset"
    /\ LedgerOf(scores_json, g) = <<>>
    /\ LedgerOf(scores_json, h) # <<>>

\* C17: an answer delivered after the scoreboard of its poll's session has
\* been sent changes neither the sessions nor the ledger.
C17_NoScoreAfterBoard ==
  [][\A a \in NewAnswers :
       BoardSent(posted[a.poll].session_id) => UNCHANGED <<GROUP_SESSIONS, scores_json>>
    ]_vars

\* C18: when no handler and no job is under way, every session in
\* GROUP_SESSIONS has exactly one job armed for it.
C18_SessionHasTimer ==
  tasks = {} =>
    \A g \in DOMAIN GROUP_SESSIONS :
      Cardinality({j \in jobs : /\ j.chat_id = g
                                /\ j.session_id = GROUP_SESSIONS[g].session_id}) = 1

\* C19: in DM mode every user's correct_count is at most total and idx at
\* most len(order), and every score shown has correct at most total.
C19_DmCountsBounded ==
  /\ \A u \in DOMAIN USER_STATE :
       /\ USER_STATE[u].correct_count <= USER_STATE[u].total
       /\ USER_STATE[u].idx <= Len(USER_STATE[u].order)
  /\ \A r \in reported : r.correct <= r.total

\* C20: with one answer per user and poll, no score of a session exceeds
\* the number of questions the session has posted, which is at most
\* idx + 1 and at most len(qids).
C20_ScoreAtMostPosted ==
  \A g \in DOMAIN GROUP_SESSIONS :
    LET s == GROUP_SESSIONS[g]
        n == Cardinality(PollsOf(s.session_id))
    IN /\ n <= s.idx + 1
       /\ n <= Len(s.qids)
       /\ \A i \in 1..Len(s.scores) : s.scores[i].score <= n

\* a user has answered every question a session has posted so far, two of
\* them, correctly
C20_Witness ==
  \E g \in DOMAIN GROUP_SESSIONS :
    /\ Cardinality(PollsOf(GROUP_SESSIONS[g].session_id)) = 2
    /\ \E i \in 1..Len(GROUP_SESSIONS[g].scores) : GROUP_SESSIONS[g].scores[i].score = 2

====
